---------------------------- MODULE Spec2Model ----------------------------
(***************************************************************************)
(* Model of bot_pyrus_b2b.py: the Flask bot that synchronises a purchase   *)
(* of the source system (Pyrus) into the target system (B2B-Center).       *)
(*                                                                         *)
(* Each webhook invocation is a process.  An outbound HTTP call is a       *)
(* blocking point: the handler runs from one answer to the next request    *)
(* as one action, and other invocations may interleave in between.         *)
(***************************************************************************)
EXTENDS Integers, Sequences, FiniteSets, TLC

VARIABLES
    inv,            \* inv[i]: the i-th webhook invocation (request, position, locals, response)
    b2b_purchases,  \* the target system: the purchases it holds, in creation order
    verify_call,    \* one call of _is_signature_correct: its arguments and its result
    extract_call,   \* one task and what extract_lots and extract_documents make of it
    bot             \* the process: its environment, the PyrusB2BBot object, whether it serves

vars == <<inv, b2b_purchases, verify_call, extract_call, bot>>

-----------------------------------------------------------------------------
(* Bounds                                                                  *)

MaxInv == 2         \* webhook invocations in one behaviour
MaxSigLen == 2      \* characters of a signature handed to _is_signature_correct
MaxFields == 2      \* fields of a task handed to extract_lots
MaxAttachments == 2 \* attachments of a task handed to extract_documents

-----------------------------------------------------------------------------
(* Python values                                                           *)

None == "None"                  \* None where the other values are strings
NoneId == <<"None", 0>>         \* None where the other values are purchase ids
NoSignature == <<"None">>       \* headers.get('X-Pyrus-Signature') without the header
NoTask == 0                     \* a falsy task id: `not task_id` holds for None and for 0

Get(d, k) == IF k \in DOMAIN d THEN d[k] ELSE None
GetId(d, k) == IF k \in DOMAIN d THEN d[k] ELSE NoneId
GetSeq(d, k) == IF k \in DOMAIN d THEN d[k] ELSE <<>>

(* The outcome of a call: it returns a value, or it raises an exception    *)
(* that `except Exception as e` catches.                                   *)
Return(v) == [ok |-> TRUE, value |-> v]
Raise(exc, arg, status) == [ok |-> FALSE, exc |-> exc, arg |-> arg, status |-> status]

NoRecord == [none |-> None]      \* a local that holds no dict yet

KeyError(k) == Raise("KeyError", k, 0)
TypeError(what) == Raise("TypeError", what, 0)
AttributeError(what) == Raise("AttributeError", what, 0)

-----------------------------------------------------------------------------
(* Configuration                                                           *)

(* The environment with every option of the configuration set.  The shared *)
(* webhook secret is not read by __init__; verify_webhook needs it.        *)
WEBHOOK_SECRET == "s1"

Environ ==
    [ PYRUS_API_KEY |-> "key", PYRUS_FORM_ID |-> "form", PYRUS_BASE_URL |-> "https://pyrus",
      B2B_CENTER_URL |-> "https://b2b", B2B_CENTER_USERNAME |-> "user",
      B2B_CENTER_PASSWORD |-> "password", WEBHOOK_SECRET |-> WEBHOOK_SECRET ]

Options == DOMAIN Environ

(* os.getenv(name): the value, or None where the option is absent. *)
getenv(environ, name) == IF name \in DOMAIN environ THEN environ[name] ELSE None

(* PyrusB2BBot.__init__: the attributes of the object.  No option is       *)
(* checked for presence, and no statement of the constructor can raise.    *)
__init__(environ) ==
    [ pyrus_api_key |-> getenv(environ, "PYRUS_API_KEY"),
      pyrus_form_id |-> getenv(environ, "PYRUS_FORM_ID"),
      pyrus_base_url |-> getenv(environ, "PYRUS_BASE_URL"),
      b2b_url |-> getenv(environ, "B2B_CENTER_URL"),
      b2b_auth |-> << getenv(environ, "B2B_CENTER_USERNAME"),
                      getenv(environ, "B2B_CENTER_PASSWORD") >>,
      pyrus_headers |-> [ Authorization |-> <<"Bearer", getenv(environ, "PYRUS_API_KEY")>> ] ]

(* The process after bot = PyrusB2BBot() and bot.app.run(...), with every  *)
(* option set.                                                             *)
Constructed == [ environ |-> Environ, self |-> __init__(Environ), serving |-> TRUE ]

-----------------------------------------------------------------------------
(* Signature verification                                                  *)

(* A signature is a sequence of characters.  U+00E9 stands for a non-ASCII  *)
(* character of a header value.                                             *)
SigChars == {"a", "b", "A", "B", "U+00E9"}

Secrets == {"s1", "s2"}
Bodies == {"b1", "b2"}
MessageKinds == {"str", "bytes"}

RECURSIVE SeqsUpTo(_, _)
SeqsUpTo(S, n) ==
    IF n = 0 THEN {<<>>}
    ELSE LET shorter == SeqsUpTo(S, n - 1)
         IN shorter \cup {Append(s, c) : s \in {t \in shorter : Len(t) = n - 1}, c \in S}

lower_char(c) ==
    CASE c = "A" -> "a"
      [] c = "B" -> "b"
      [] OTHER -> c

(* str.lower() *)
lower(s) == [k \in DOMAIN s |-> lower_char(s[k])]

IsAscii(s) == \A k \in DOMAIN s : s[k] # "U+00E9"

(* message.encode('utf-8') of a str, or the bytes themselves *)
encode(message) == message.content

(* hmac.new(secret, msg, sha1).hexdigest(): lowercase hex, injective in    *)
(* (secret, bytes) on the bounded sets.                                     *)
hexdigest(secret, bytes) ==
    << IF secret = "s1" THEN "a" ELSE "b", IF bytes = "b1" THEN "a" ELSE "b" >>

(* hmac.compare_digest(a, b) of two str: TypeError on a non-ASCII str. *)
compare_digest(a, b) ==
    IF ~ IsAscii(a) \/ ~ IsAscii(b)
    THEN TypeError("compare_digest")
    ELSE Return(a = b)

(* The comparison without signature.lower(). *)
_is_signature_correct_case_sensitive(message, secret, signature) ==
    IF secret = None THEN TypeError("str.encode")
    ELSE IF signature = NoSignature THEN AttributeError("lower")
    ELSE compare_digest(hexdigest(secret, encode(message)), signature)

_is_signature_correct(message, secret, signature) ==
    IF secret = None THEN TypeError("str.encode")
    ELSE IF signature = NoSignature THEN AttributeError("lower")
    ELSE compare_digest(hexdigest(secret, encode(message)), lower(signature))


(* verify_webhook(request_body, signature) is called at lines 116 and 157  *)
(* and defined nowhere in the file.  It is taken to be the verifier of the  *)
(* design: the shared webhook secret of the configuration, the raw payload  *)
(* (the canonical serialisation of the query parameters for a GET trigger), *)
(* and the check of _is_signature_correct, whose exceptions it lets pass.   *)
verify_webhook(request_body, signature) ==
    _is_signature_correct(request_body, getenv(bot.environ, "WEBHOOK_SECRET"), signature)

-----------------------------------------------------------------------------
(* The source system (Pyrus)                                               *)

P100 == <<"P", 100>>    \* the purchase of source task 174, not yet in the target system
P200 == <<"P", 200>>    \* a purchase the target system holds and no source task carries
P300 == <<"P", 300>>    \* a purchase neither system knows
PurchaseIds == {P100, P200, P300}

lot_a == <<"l", "o", "t", "_", "a">>
lot_b == <<"l", "o", "t", "_", "b">>
x == <<"x">>

(* The task of the end-to-end scenario: one lot field, two attachments. *)
OfficeChairs ==
    [ subject |-> "Office chairs",
      b2b_id |-> P100,
      fields |-> << [id |-> lot_a, value |-> "Chair", quantity |-> "10", price |-> "50"],
                    [id |-> x, value |-> "note"] >>,
      attachments |-> << [name |-> "spec.pdf", url |-> "u1", type |-> "pdf"],
                         [name |-> "plan.png", url |-> "u2"] >>,
      deadline |-> "2024-12-01" ]

(* A task without correlation id, deadline and attachments. *)
Bare ==
    [ subject |-> "Paper",
      fields |-> << [id |-> lot_b, value |-> "A4"], [id |-> lot_a, value |-> "A3", price |-> "7"] >> ]

NoSubject == [ fields |-> <<>>, deadline |-> "2024-12-01" ]
NoFields == [ subject |-> "Desks", b2b_id |-> P100 ]

TaskRecords == {OfficeChairs, Bare, NoSubject, NoFields}

(* The custom field of the source tasks that holds the purchase id. *)
pyrus_custom_field == [t \in {174} |-> P100]

(* _find_task_by_purchase_id(purchase_id) is called at line 125 and defined *)
(* nowhere in the file.  It is taken to be the Identifier Resolver of the   *)
(* design: the task whose custom field equals the purchase id, or nothing.  *)
_find_task_by_purchase_id(purchase_id) ==
    IF \E t \in DOMAIN pyrus_custom_field : pyrus_custom_field[t] = purchase_id
    THEN CHOOSE t \in DOMAIN pyrus_custom_field : pyrus_custom_field[t] = purchase_id
    ELSE NoTask

(* get_pyrus_purchase: the answer of GET /tasks/{id} to the task or an exception. *)
get_pyrus_purchase(response) ==
    IF response.status_code = 200
    THEN IF "task" \in DOMAIN response.json
         THEN Return(response.json.task)
         ELSE KeyError("task")
    ELSE Raise("Exception", "pyrus task", response.status_code)

(* field["id"].startswith("lot") in the place of "lot" in field["id"] *)
StartsWith(s, sub) ==
    Len(s) >= Len(sub) /\ \A j \in 1 .. Len(sub) : s[j] = sub[j]

(* "lot" in field["id"] *)
Contains(s, sub) ==
    \E k \in 0 .. (Len(s) - Len(sub)) : \A j \in 1 .. Len(sub) : s[k + j] = sub[j]

LotMarker == <<"l", "o", "t">>

make_lot(field) ==
    [name |-> field.value, quantity |-> Get(field, "quantity"), price |-> Get(field, "price")]

RECURSIVE lots_of(_)
lots_of(fields) ==
    IF fields = <<>> THEN Return(<<>>)
    ELSE LET field == Head(fields)
             rest == lots_of(Tail(fields))
         IN IF "id" \notin DOMAIN field THEN KeyError("id")
            ELSE IF ~ Contains(field.id, LotMarker) THEN rest
            ELSE IF "value" \notin DOMAIN field THEN KeyError("value")
            ELSE IF ~ rest.ok THEN rest
            ELSE Return(<<make_lot(field)>> \o rest.value)

(* extract_lots reading the fields with .get("fields", []). *)
extract_lots_fields_optional(pyrus_purchase) ==
    lots_of(GetSeq(pyrus_purchase, "fields"))

extract_lots(pyrus_purchase) ==
    IF "fields" \notin DOMAIN pyrus_purchase THEN KeyError("fields")
    ELSE lots_of(pyrus_purchase.fields)

make_document(attachment) ==
    [name |-> attachment.name, url |-> attachment.url, type |-> Get(attachment, "type")]

(* The loop that leaves out the attachments without a type. *)
RECURSIVE documents_of_typed_only(_)
documents_of_typed_only(attachments) ==
    IF attachments = <<>> THEN Return(<<>>)
    ELSE LET attachment == Head(attachments)
             rest == documents_of_typed_only(Tail(attachments))
         IN IF "name" \notin DOMAIN attachment THEN KeyError("name")
            ELSE IF "url" \notin DOMAIN attachment THEN KeyError("url")
            ELSE IF ~ rest.ok THEN rest
            ELSE IF "type" \notin DOMAIN attachment THEN rest
            ELSE Return(<<make_document(attachment)>> \o rest.value)

RECURSIVE documents_of(_)
documents_of(attachments) ==
    IF attachments = <<>> THEN Return(<<>>)
    ELSE LET attachment == Head(attachments)
             rest == documents_of(Tail(attachments))
         IN IF "name" \notin DOMAIN attachment THEN KeyError("name")
            ELSE IF "url" \notin DOMAIN attachment THEN KeyError("url")
            ELSE IF ~ rest.ok THEN rest
            ELSE Return(<<make_document(attachment)>> \o rest.value)

extract_documents(pyrus_purchase) ==
    documents_of(GetSeq(pyrus_purchase, "attachments"))


-----------------------------------------------------------------------------
(* The target system (B2B-Center)                                          *)

(* The payload with the status taken from the purchase data instead of fixed. *)
create_purchase_in_b2b_payload_status_from_data(purchase_data) ==
    [ name |-> purchase_data.subject,
      b2b_id |-> GetId(purchase_data, "b2b_id"),
      lots |-> GetSeq(purchase_data, "lots"),
      documents |-> GetSeq(purchase_data, "documents"),
      deadline |-> Get(purchase_data, "deadline"),
      status |-> Get(purchase_data, "status") ]

(* POST /purchases: the payload of create_purchase_in_b2b. *)
create_purchase_in_b2b_payload(purchase_data) ==
    [ name |-> purchase_data.subject,
      b2b_id |-> GetId(purchase_data, "b2b_id"),
      lots |-> GetSeq(purchase_data, "lots"),
      documents |-> GetSeq(purchase_data, "documents"),
      deadline |-> Get(purchase_data, "deadline"),
      status |-> "active" ]

(* create_purchase_in_b2b: the answer of POST /purchases to the new id or an exception. *)
create_purchase_in_b2b(response) ==
    IF response.status_code = 201
    THEN IF "id" \in DOMAIN response.json
         THEN Return(response.json.id)
         ELSE KeyError("id")
    ELSE Raise("Exception", "b2b create", response.status_code)

(* The check that takes every answer but "not found" for existence. *)
check_purchase_in_b2b_unless_404(response) == response.status_code # 404

(* check_purchase_in_b2b: the answer of GET /purchases/{id} to a boolean. *)
check_purchase_in_b2b(response) == response.status_code = 200

(* get_b2b_participants: the answer of GET /purchases/{id}/participants. *)
get_b2b_participants(response) ==
    IF response.status_code = 200
    THEN IF "participants" \in DOMAIN response.json
         THEN Return(response.json.participants)
         ELSE KeyError("participants")
    ELSE Raise("Exception", "b2b participants", response.status_code)

(* What the target system holds at the start: one purchase, P200. *)
Existing ==
    [ id |-> P200,
      payload |-> [ name |-> "Printers", b2b_id |-> P200, lots |-> <<>>, documents |-> <<>>,
                    deadline |-> None, status |-> "active" ] ]

HasPurchase(purchases, id) == \E k \in DOMAIN purchases : purchases[k].id = id

(* The id the target system gives a new purchase: the correlation id of    *)
(* the payload while it is free, and an id of its own otherwise.           *)
NewId(purchases, payload) ==
    IF payload.b2b_id # NoneId /\ ~ HasPurchase(purchases, payload.b2b_id)
    THEN payload.b2b_id
    ELSE <<"B", Len(purchases)>>

(* The answers GET /purchases/{id} can give: not found for a purchase the  *)
(* target system does not hold (404 stands for every answer but 200        *)
(* there); found, forbidden or server error for one it holds.              *)
ExistenceAnswers(purchases, id) ==
    { [status_code |-> c, json |-> [id |-> id]] :
        c \in (IF HasPurchase(purchases, id) THEN {200, 403, 500} ELSE {404}) }

ParticipantLists == { <<>>, <<"Alfa", "Beta", "Gamma">> }

(* The answers GET /purchases/{id}/participants can give. *)
ParticipantAnswers(purchases, id) ==
    (IF HasPurchase(purchases, id)
     THEN { [status_code |-> 200, json |-> [participants |-> ps]] : ps \in ParticipantLists }
     ELSE { [status_code |-> 404, json |-> [message |-> "not found"]] })
    \cup { [status_code |-> 500, json |-> [message |-> "error"]] }

(* The answers GET /tasks/{id} can give. *)
TaskAnswers ==
    { [status_code |-> 200, json |-> [task |-> r]] : r \in TaskRecords }
    \cup { [status_code |-> 404, json |-> [error |-> "not found"]] }

-----------------------------------------------------------------------------
(* The webhook handlers                                                    *)

Invocations == 1 .. MaxInv

Idle ==
    [ pc |-> "idle", route |-> None, purchase_id |-> NoneId,
      request_body |-> NoRecord, signature |-> NoSignature,
      calls |-> <<>>, answers |-> <<>>,
      task_id |-> NoTask, pyrus_purchase |-> NoRecord, payload |-> NoRecord,
      response |-> [code |-> 0, body |-> NoRecord],
      after |-> {}, listed |-> <<>> ]

(* A trigger as Flask hands it to the handler.  `after` is history: the    *)
(* invocations that had responded when this one arrived; so is `listed`,   *)
(* the participants the target system returned to this invocation.         *)
Request(route, purchase_id, request_body, signature, after) ==
    [ Idle EXCEPT !.pc = "received", !.route = route, !.purchase_id = purchase_id,
                  !.request_body = request_body, !.signature = signature,
                  !.after = after ]

(* The answer of the outbound call the handler blocks in. *)
Answered(t, response) == [t EXCEPT !.answers = Append(@, response.status_code)]

(* return jsonify(body), code *)
Respond(t, code, body) == [t EXCEPT !.pc = "done", !.response = [code |-> code, body |-> body]]

(* str(e) *)
str(e) == [text |-> e.arg, status |-> e.status]

(* Only KeyError is caught: any other exception leaves the handler and the *)
(* server answers with its own error page.                                 *)
Except_KeyError_only(t, e) ==
    IF e.exc = "KeyError"
    THEN Respond(t, 500, [error |-> str(e)])
    ELSE Respond(t, 500, [html |-> "Internal Server Error"])

(* except Exception as e: return jsonify({"error": str(e)}), 500 *)
Except(t, e) == Respond(t, 500, [error |-> str(e)])

(* The base URL an outbound call is made to. *)
base_url(call) ==
    IF call \in {"check_purchase_in_b2b", "create_purchase_in_b2b", "get_b2b_participants"}
    THEN bot.self.b2b_url
    ELSE bot.self.pyrus_base_url

(* The handler blocks in an outbound call; with the base URL absent the    *)
(* URL is "None/..." and requests raises MissingSchema before it sends.    *)
Call(t, call) ==
    IF base_url(call) = None
    THEN Except(t, Raise("MissingSchema", call, 0))
    ELSE [t EXCEPT !.pc = call, !.calls = Append(@, call)]

InvalidSignature(t) == Respond(t, 401, [error |-> [text |-> "Invalid signature", status |-> 0]])

AlreadyExists(t) == Respond(t, 200, [status |-> "already_exists", purchase_id |-> t.purchase_id])

TaskNotFound(t) ==
    Respond(t, 404, [error |-> [text |-> "task not found", purchase_id |-> t.purchase_id]])

Created(t, b2b_purchase_id) ==
    Respond(t, 201, [status |-> "created", purchase_id |-> b2b_purchase_id])

(* purchase_data, built from the task that was read. *)
purchase_data(pyrus_purchase) ==
    LET lots == extract_lots(pyrus_purchase)
        documents == extract_documents(pyrus_purchase)
    IN IF "subject" \notin DOMAIN pyrus_purchase THEN KeyError("subject")
       ELSE IF ~ lots.ok THEN lots
       ELSE IF ~ documents.ok THEN documents
       ELSE Return([ subject |-> pyrus_purchase.subject,
                     b2b_id |-> GetId(pyrus_purchase, "b2b_id"),
                     lots |-> lots.value,
                     documents |-> documents.value,
                     deadline |-> Get(pyrus_purchase, "deadline") ])

(* create_b2b_purchase, from the request to the existence check. *)
create_b2b_purchase(t) ==
    LET verified == verify_webhook(t.request_body, t.signature)
    IN IF ~ verified.ok THEN Except(t, verified)
       ELSE IF ~ verified.value THEN InvalidSignature(t)
       ELSE Call(t, "check_purchase_in_b2b")

(* The handler without the early return for a purchase that exists. *)
create_b2b_purchase_checked_no_return(t, response) ==
    Call(Answered(t, response), "_find_task_by_purchase_id")

(* create_b2b_purchase, from the answer of the existence check to the reverse lookup. *)
create_b2b_purchase_checked(t, response) ==
    IF check_purchase_in_b2b(response)
    THEN AlreadyExists(Answered(t, response))
    ELSE Call(Answered(t, response), "_find_task_by_purchase_id")

(* The handler without the 404 return for a task that was not found. *)
create_b2b_purchase_found_no_return(t, task_id) ==
    Call([t EXCEPT !.task_id = task_id, !.answers = Append(@, 200)], "get_pyrus_purchase")

(* create_b2b_purchase, from the result of the reverse lookup to the source read. *)
create_b2b_purchase_found(t, task_id) ==
    LET u == [t EXCEPT !.task_id = task_id, !.answers = Append(@, 200)]
    IN IF task_id = NoTask
       THEN TaskNotFound(u)
       ELSE Call(u, "get_pyrus_purchase")

(* create_b2b_purchase, from the answer of the source read to the create call. *)
create_b2b_purchase_read(t, response) ==
    LET u == Answered(t, response)
        pyrus_purchase == get_pyrus_purchase(response)
    IN IF ~ pyrus_purchase.ok THEN Except(u, pyrus_purchase)
       ELSE LET v == [u EXCEPT !.pyrus_purchase = pyrus_purchase.value]
                data == purchase_data(pyrus_purchase.value)
            IN IF ~ data.ok THEN Except(v, data)
               ELSE Call([v EXCEPT !.payload = create_purchase_in_b2b_payload(data.value)],
                         "create_purchase_in_b2b")

(* The handler that issues the create call again when it has failed. *)
create_b2b_purchase_created_retry(t, response) ==
    LET u == Answered(t, response)
        b2b_purchase_id == create_purchase_in_b2b(response)
    IN IF ~ b2b_purchase_id.ok THEN Call(u, "create_purchase_in_b2b")
       ELSE Created(u, b2b_purchase_id.value)

(* create_b2b_purchase, from the answer of the create call to the response. *)
create_b2b_purchase_created(t, response) ==
    LET u == Answered(t, response)
        b2b_purchase_id == create_purchase_in_b2b(response)
    IN IF ~ b2b_purchase_id.ok THEN Except(u, b2b_purchase_id)
       ELSE Created(u, b2b_purchase_id.value)

(* The handler that checks the existence of the purchase before it lists. *)
load_b2b_participants_checking(t) ==
    LET verified == verify_webhook(t.request_body, t.signature)
    IN IF ~ verified.ok THEN Except(t, verified)
       ELSE IF ~ verified.value THEN InvalidSignature(t)
       ELSE Call(t, "check_purchase_in_b2b")

(* load_b2b_participants, from the request to the participant listing. *)
load_b2b_participants(t) ==
    LET verified == verify_webhook(t.request_body, t.signature)
    IN IF ~ verified.ok THEN Except(t, verified)
       ELSE IF ~ verified.value THEN InvalidSignature(t)
       ELSE Call(t, "get_b2b_participants")

(* The handler with the participants in reverse order. *)
load_b2b_participants_listed_reversed(t, response) ==
    LET u == Answered(t, response)
        participants == get_b2b_participants(response)
        n == IF participants.ok THEN Len(participants.value) ELSE 0
    IN IF ~ participants.ok THEN Except(u, participants)
       ELSE Respond(u, 200, [ status |-> "success",
                              purchase_id |-> t.purchase_id,
                              participants_count |-> n,
                              participants |-> [k \in 1 .. n |-> participants.value[n + 1 - k]] ])

(* load_b2b_participants, from the answer of the listing to the response. *)
load_b2b_participants_listed(t, response) ==
    LET u == Answered(t, response)
        participants == get_b2b_participants(response)
    IN IF ~ participants.ok THEN Except(u, participants)
       ELSE Respond(u, 200, [ status |-> "success",
                              purchase_id |-> t.purchase_id,
                              participants_count |-> Len(participants.value),
                              participants |-> participants.value ])


-----------------------------------------------------------------------------
(* The webhook triggers and the answers of the two systems                 *)

PostBody == [kind |-> "bytes", content |-> "b1"]    \* request.get_data()
QueryArgs == [kind |-> "str", content |-> "b2"]     \* request.args, serialised

(* The X-Pyrus-Signature header: absent, the digest of either payload, or  *)
(* a value with a non-ASCII character.                                     *)
Signatures ==
    {NoSignature}
    \cup { hexdigest(WEBHOOK_SECRET, b) : b \in Bodies }
    \cup { <<"U+00E9", "a">> }

(* The triggers that arrive with a payload: every purchase id with the     *)
(* signature of the payload, and P100 with every header.                   *)
Triggers(request_body) ==
    { <<purchase_id, signature>> \in PurchaseIds \X Signatures :
        \/ purchase_id = P100
        \/ signature = hexdigest(WEBHOOK_SECRET, request_body.content) }

(* Invocations are numbered in the order their triggers arrive. *)
Arrives(i) ==
    /\ inv[i].pc = "idle"
    /\ \A j \in 1 .. (i - 1) : inv[j].pc # "idle"

Responded == { j \in Invocations : inv[j].pc = "done" }

(* POST /create-b2b/<purchase_id> *)
ReceiveCreate(i) ==
    /\ bot.serving
    /\ Arrives(i)
    /\ \E trigger \in Triggers(PostBody) :
          inv' = [inv EXCEPT ![i] =
                    create_b2b_purchase(
                        Request("create-b2b", trigger[1], PostBody, trigger[2], Responded))]
    /\ UNCHANGED <<b2b_purchases, verify_call, extract_call, bot>>

(* GET /load-participants/<purchase_id> *)
ReceiveLoad(i) ==
    /\ bot.serving
    /\ Arrives(i)
    /\ \E trigger \in Triggers(QueryArgs) :
          inv' = [inv EXCEPT ![i] =
                    load_b2b_participants(
                        Request("load-participants", trigger[1], QueryArgs, trigger[2], Responded))]
    /\ UNCHANGED <<b2b_purchases, verify_call, extract_call, bot>>

(* The target system answers GET /purchases/{id}. *)
CheckAnswer(i) ==
    /\ inv[i].pc = "check_purchase_in_b2b"
    /\ \E response \in ExistenceAnswers(b2b_purchases, inv[i].purchase_id) :
          inv' = [inv EXCEPT ![i] = create_b2b_purchase_checked(@, response)]
    /\ UNCHANGED <<b2b_purchases, verify_call, extract_call, bot>>

(* The source system answers the reverse lookup. *)
FindAnswer(i) ==
    /\ inv[i].pc = "_find_task_by_purchase_id"
    /\ inv' = [inv EXCEPT ![i] =
                 create_b2b_purchase_found(@, _find_task_by_purchase_id(@.purchase_id))]
    /\ UNCHANGED <<b2b_purchases, verify_call, extract_call, bot>>

(* The source system answers GET /tasks/{id}. *)
ReadAnswer(i) ==
    /\ inv[i].pc = "get_pyrus_purchase"
    /\ \E response \in TaskAnswers :
          inv' = [inv EXCEPT ![i] = create_b2b_purchase_read(@, response)]
    /\ UNCHANGED <<b2b_purchases, verify_call, extract_call, bot>>

(* The target system accepts POST /purchases, stores the purchase and     *)
(* answers with the new id: 201 Created, or 200 OK.                        *)
CreateAccepted(i) ==
    /\ inv[i].pc = "create_purchase_in_b2b"
    /\ LET id == NewId(b2b_purchases, inv[i].payload)
       IN /\ b2b_purchases' = Append(b2b_purchases, [id |-> id, payload |-> inv[i].payload])
          /\ \E status_code \in {201, 200} :
                inv' = [inv EXCEPT ![i] =
                          create_b2b_purchase_created(@, [status_code |-> status_code,
                                                          json |-> [id |-> id]])]
    /\ UNCHANGED <<verify_call, extract_call, bot>>

(* The target system holds the correlation id already, enforces its        *)
(* uniqueness and answers POST /purchases with a conflict.                 *)
CreateConflict(i) ==
    /\ inv[i].pc = "create_purchase_in_b2b"
    /\ inv[i].payload.b2b_id # NoneId
    /\ HasPurchase(b2b_purchases, inv[i].payload.b2b_id)
    /\ inv' = [inv EXCEPT ![i] =
                 create_b2b_purchase_created(@, [status_code |-> 409, json |-> [message |-> "conflict"]])]
    /\ UNCHANGED <<b2b_purchases, verify_call, extract_call, bot>>

(* The target system rejects POST /purchases. *)
CreateRejected(i) ==
    /\ inv[i].pc = "create_purchase_in_b2b"
    /\ inv' = [inv EXCEPT ![i] =
                 create_b2b_purchase_created(@, [status_code |-> 400, json |-> [message |-> "rejected"]])]
    /\ UNCHANGED <<b2b_purchases, verify_call, extract_call, bot>>

(* The target system answers GET /purchases/{id}/participants. *)
ParticipantsAnswer(i) ==
    /\ inv[i].pc = "get_b2b_participants"
    /\ \E response \in ParticipantAnswers(b2b_purchases, inv[i].purchase_id) :
          inv' = [inv EXCEPT ![i] =
                    [load_b2b_participants_listed(@, response) EXCEPT
                        !.listed = GetSeq(response.json, "participants")]]
    /\ UNCHANGED <<b2b_purchases, verify_call, extract_call, bot>>

NoCall ==
    [ called |-> FALSE, message |-> PostBody, secret |-> WEBHOOK_SECRET,
      signature |-> NoSignature, result |-> Return(FALSE) ]

(* No task has been handed to the extraction functions. *)
NoExtract == [called |-> {}, record |-> NoRecord, lots |-> Return(<<>>), documents |-> Return(<<>>)]

Init ==
    /\ inv = [i \in Invocations |-> Idle]
    /\ b2b_purchases = <<Existing>>
    /\ verify_call = NoCall
    /\ extract_call = NoExtract
    /\ bot = Constructed

Next ==
    \E i \in Invocations :
        \/ ReceiveCreate(i)
        \/ ReceiveLoad(i)
        \/ CheckAnswer(i)
        \/ FindAnswer(i)
        \/ ReadAnswer(i)
        \/ CreateAccepted(i)
        \/ CreateConflict(i)
        \/ CreateRejected(i)
        \/ ParticipantsAnswer(i)

Spec == Init /\ [][Next]_vars

-----------------------------------------------------------------------------
(* _is_signature_correct as a pure function of its three arguments         *)

Messages == { [kind |-> k, content |-> b] : k \in MessageKinds, b \in Bodies }

VerifyInit ==
    /\ inv = [i \in Invocations |-> Idle]
    /\ b2b_purchases = <<Existing>>
    /\ verify_call \in
          { [ called |-> FALSE, message |-> m, secret |-> s, signature |-> sig,
              result |-> Return(FALSE) ] :
              m \in Messages, s \in Secrets,
              sig \in SeqsUpTo(SigChars, MaxSigLen) \cup {NoSignature} }
    /\ extract_call = NoExtract
    /\ bot = Constructed

Verify ==
    /\ ~ verify_call.called
    /\ verify_call' = [verify_call EXCEPT
                          !.called = TRUE,
                          !.result = _is_signature_correct(verify_call.message,
                                                           verify_call.secret,
                                                           verify_call.signature)]
    /\ UNCHANGED <<inv, b2b_purchases, extract_call, bot>>

VerifyNext == Verify

VerifySpec == VerifyInit /\ [][VerifyNext]_vars

-----------------------------------------------------------------------------
(* The start of the process, with every option set or one of them absent   *)

Environs ==
    { [o \in S |-> Environ[o]] : S \in {Options} \cup { Options \ {o} : o \in Options } }

StartupInit ==
    /\ inv = [i \in Invocations |-> Idle]
    /\ b2b_purchases = <<Existing>>
    /\ verify_call = NoCall
    /\ extract_call = NoExtract
    /\ bot \in { [environ |-> e, self |-> NoRecord, serving |-> FALSE] : e \in Environs }

(* bot = PyrusB2BBot(); bot.app.run(host='0.0.0.0', port=5000, debug=False) *)
main ==
    /\ ~ bot.serving
    /\ bot' = [bot EXCEPT !.self = __init__(bot.environ), !.serving = TRUE]
    /\ UNCHANGED <<inv, b2b_purchases, verify_call, extract_call>>

StartupNext == main \/ Next

StartupSpec == StartupInit /\ [][StartupNext]_vars

-----------------------------------------------------------------------------
(* extract_lots and extract_documents as pure functions of the task        *)

slot == <<"s", "l", "o", "t">>
Lot_c == <<"L", "o", "t", "_", "c">>

(* The fields a task is made of: lots with and without quantity and price, *)
(* twice the same lot, a field that is no lot, ids with the marker in the  *)
(* middle and in another case, and a lot without value.                    *)
FieldShapes ==
    { [id |-> lot_a, value |-> "Chair", quantity |-> "10", price |-> "50"],
      [id |-> lot_a, value |-> "Chair"],
      [id |-> x, value |-> "note", quantity |-> "1"],
      [id |-> slot, value |-> "Slot", price |-> "7"],
      [id |-> Lot_c, value |-> "Cap"],
      [id |-> lot_b] }

(* The attachments: with a type, without one, and without a name. *)
AttachmentShapes ==
    { [name |-> "spec.pdf", url |-> "u1", type |-> "pdf"],
      [name |-> "plan.png", url |-> "u2"],
      [url |-> "u3", type |-> "doc"] }

ExtractRecords ==
    { [subject |-> "Office chairs", fields |-> fs, attachments |-> at] :
        fs \in SeqsUpTo(FieldShapes, MaxFields),
        at \in SeqsUpTo(AttachmentShapes, MaxAttachments) }
    \cup { [subject |-> "Office chairs", fields |-> fs] : fs \in SeqsUpTo(FieldShapes, MaxFields) }
    \cup TaskRecords

ExtractInit ==
    /\ inv = [i \in Invocations |-> Idle]
    /\ b2b_purchases = <<Existing>>
    /\ verify_call = NoCall
    /\ extract_call \in { [NoExtract EXCEPT !.record = r] : r \in ExtractRecords }
    /\ bot = Constructed

ExtractLots ==
    /\ "extract_lots" \notin extract_call.called
    /\ extract_call' = [extract_call EXCEPT
                           !.called = @ \cup {"extract_lots"},
                           !.lots = extract_lots(extract_call.record)]
    /\ UNCHANGED <<inv, b2b_purchases, verify_call, bot>>

ExtractDocuments ==
    /\ "extract_documents" \notin extract_call.called
    /\ extract_call' = [extract_call EXCEPT
                           !.called = @ \cup {"extract_documents"},
                           !.documents = extract_documents(extract_call.record)]
    /\ UNCHANGED <<inv, b2b_purchases, verify_call, bot>>

ExtractNext == ExtractLots \/ ExtractDocuments

ExtractSpec == ExtractInit /\ [][ExtractNext]_vars

-----------------------------------------------------------------------------
(* Properties                                                              *)

IsCreate(i) == inv[i].route = "create-b2b"
IsLoad(i) == inv[i].route = "load-participants"
Done(i) == inv[i].pc = "done"
AnswerOf(i, n) == IF Len(inv[i].answers) >= n THEN inv[i].answers[n] ELSE 0

(* The signature of the trigger is the hex HMAC of its payload, in any case. *)
SignatureVerifies(i) ==
    /\ inv[i].signature # NoSignature
    /\ IsAscii(inv[i].signature)
    /\ lower(inv[i].signature) = hexdigest(WEBHOOK_SECRET, inv[i].request_body.content)

(* A signature is provided and differs from the hex HMAC of the payload. *)
SignatureMismatches(i) ==
    /\ inv[i].signature # NoSignature
    /\ lower(inv[i].signature) # hexdigest(WEBHOOK_SECRET, inv[i].request_body.content)

ExistsAnsweredTrue(i) == IsCreate(i) /\ AnswerOf(i, 1) = 200
ExistsAnsweredFalse(i) == IsCreate(i) /\ AnswerOf(i, 1) \notin {0, 200}
CreateCalls(i) == { k \in DOMAIN inv[i].calls : inv[i].calls[k] = "create_purchase_in_b2b" }
CreateSucceeded(i) == IsCreate(i) /\ AnswerOf(i, 4) = 201

(* C1: a createOrReport invocation whose signature verifies and whose      *)
(* existence check returns true ends with 200 {already_exists, the inbound *)
(* purchase id} and has issued the existence check and no other call.      *)
C1_AlreadyExistsIsNoOp ==
    \A i \in Invocations :
        (SignatureVerifies(i) /\ ExistsAnsweredTrue(i)) =>
            /\ Done(i)
            /\ inv[i].response =
                  [code |-> 200,
                   body |-> [status |-> "already_exists", purchase_id |-> inv[i].purchase_id]]
            /\ inv[i].calls = <<"check_purchase_in_b2b">>

(* A redelivery for P100 finds the purchase an earlier invocation created. *)
C1_Witness ==
    \E i \in Invocations :
        /\ SignatureVerifies(i) /\ ExistsAnsweredTrue(i)
        /\ inv[i].purchase_id = P100

(* The existence check of invocation i was answered "not found" and the    *)
(* payload it built carries the inbound purchase id as correlation id.     *)
TruthfullyAbsent(i) ==
    /\ AnswerOf(i, 1) = 404
    /\ "b2b_id" \in DOMAIN inv[i].payload
    /\ inv[i].payload.b2b_id = inv[i].purchase_id

(* C2: concurrent createOrReport invocations with the same purchase id     *)
(* make at most one successful create call between them.  The formula      *)
(* states the claim for the invocations the target system told truthfully  *)
(* that the purchase was absent and whose payloads carry the correlation   *)
(* id: the case of the claim that no wrong answer of a remote system       *)
(* accounts for.                                                           *)
C2_ConcurrentCreateAtMostOnce ==
    \A i, j \in Invocations :
        (/\ j < i
         /\ j \notin inv[i].after
         /\ IsCreate(i) /\ IsCreate(j)
         /\ inv[i].purchase_id = inv[j].purchase_id
         /\ TruthfullyAbsent(i) /\ TruthfullyAbsent(j)) =>
            ~ (CreateSucceeded(i) /\ CreateSucceeded(j))

(* C3: once an invocation for P has answered "created", a later invocation *)
(* for P that does not overlap it and has a valid signature answers        *)
(* "already_exists" and makes no create call.                              *)
C3_RedeliveryIsIdempotent ==
    \A i, j \in Invocations :
        (/\ j \in inv[i].after
         /\ IsCreate(i) /\ IsCreate(j)
         /\ inv[i].purchase_id = inv[j].purchase_id
         /\ inv[j].response.code = 201
         /\ SignatureVerifies(i)) =>
            /\ CreateCalls(i) = {}
            /\ Done(i) => inv[i].response.code = 200

(* C4: in both entry operations a trigger whose signature does not match   *)
(* ends with 401 {error} and issues no outbound call.                      *)
C4_MismatchIsRejected ==
    \A i \in Invocations :
        (inv[i].pc # "idle" /\ SignatureMismatches(i)) =>
            /\ Done(i)
            /\ inv[i].response.code = 401
            /\ DOMAIN inv[i].response.body = {"error"}
            /\ inv[i].calls = <<>>

(* C5: a trigger without the signature header, or with a malformed one,    *)
(* ends with 401 and never with 500.                                       *)
C5_MissingSignatureIsRejected ==
    \A i \in Invocations :
        (inv[i].pc # "idle" /\ (inv[i].signature = NoSignature \/ ~ IsAscii(inv[i].signature))) =>
            /\ Done(i)
            /\ inv[i].response.code = 401

(* No source task carries the purchase id. *)
NoTaskCarries(purchase_id) ==
    \A t \in DOMAIN pyrus_custom_field : pyrus_custom_field[t] # purchase_id

(* C6: with a valid signature, the purchase absent in the target system    *)
(* and no source task carrying the purchase id, createOrReport ends with   *)
(* 404 {error} and has issued no source read and no create call.           *)
C6_LookupMissIs404 ==
    \A i \in Invocations :
        (/\ SignatureVerifies(i) /\ ExistsAnsweredFalse(i)
         /\ NoTaskCarries(inv[i].purchase_id)
         /\ Len(inv[i].answers) >= 2) =>
            /\ Done(i)
            /\ inv[i].response.code = 404
            /\ DOMAIN inv[i].response.body = {"error"}
            /\ inv[i].calls = <<"check_purchase_in_b2b", "_find_task_by_purchase_id">>

C6_Witness ==
    \E i \in Invocations :
        /\ SignatureVerifies(i) /\ ExistsAnsweredFalse(i)
        /\ NoTaskCarries(inv[i].purchase_id)
        /\ Len(inv[i].answers) >= 2
        /\ AnswerOf(i, 1) = 404


(* An answer the handler can take next, for the call invocation i blocks in. *)
Step(i) ==
    \/ CheckAnswer(i)
    \/ FindAnswer(i)
    \/ ReadAnswer(i)
    \/ CreateAccepted(i)
    \/ CreateConflict(i)
    \/ CreateRejected(i)
    \/ ParticipantsAnswer(i)

(* A JSON body of the shape the response code calls for. *)
Structured(r) ==
    /\ r.code \in {200, 201, 401, 404, 500}
    /\ r.code \in {200, 201} => {"status", "purchase_id"} \subseteq DOMAIN r.body
    /\ r.code \in {401, 404, 500} => DOMAIN r.body = {"error"}

(* The terminal state of the orchestrator a response code stands for. *)
TerminalState(code) ==
    CASE code \in {200, 201} -> "DONE"
      [] code = 401 -> "REJECTED"
      [] code \in {404, 500} -> "FAILED"
      [] OTHER -> "NONE"

(* C7: every invocation of either entry operation that has started either  *)
(* has an answer to take or has ended, and then it has returned one         *)
(* structured response with code 200, 201, 401, 404 or 500 and takes no     *)
(* further step; a non-200 source read, a rejected create and a non-200     *)
(* participant listing end FAILED with 500, a reverse-lookup miss FAILED    *)
(* with 404.                                                                *)
C7_AlwaysOneStructuredResponse ==
    \A i \in Invocations :
        /\ inv[i].pc \notin {"idle", "done"} =>
              (ENABLED Step(i)) /\ inv[i].response.code = 0
        /\ Done(i) =>
              /\ ~ ENABLED Step(i)
              /\ Structured(inv[i].response)
              /\ TerminalState(inv[i].response.code) \in {"DONE", "REJECTED", "FAILED"}
        /\ (IsCreate(i) /\ AnswerOf(i, 3) \notin {0, 200}) =>
              Done(i) /\ inv[i].response.code = 500
        /\ (IsCreate(i) /\ AnswerOf(i, 4) \notin {0} \cup (200 .. 299)) =>
              Done(i) /\ inv[i].response.code = 500
        /\ (IsLoad(i) /\ AnswerOf(i, 1) \notin {0, 200}) =>
              Done(i) /\ inv[i].response.code = 500
        /\ (IsCreate(i) /\ Len(inv[i].answers) >= 2 /\ inv[i].task_id = NoTask) =>
              Done(i) /\ inv[i].response.code = 404

(* Two invocations have ended, one on a rejected create call and one on a  *)
(* failed participant listing.                                             *)
C7_Witness ==
    \E i, j \in Invocations :
        /\ Done(i) /\ IsCreate(i) /\ AnswerOf(i, 4) = 400
        /\ Done(j) /\ IsLoad(j) /\ AnswerOf(j, 1) = 500

(* The payload the end-to-end scenario expects for the task OfficeChairs. *)
OfficeChairsPayload ==
    [ name |-> "Office chairs",
      b2b_id |-> P100,
      lots |-> << [name |-> "Chair", quantity |-> "10", price |-> "50"] >>,
      documents |-> << [name |-> "spec.pdf", url |-> "u1", type |-> "pdf"],
                       [name |-> "plan.png", url |-> "u2", type |-> None] >>,
      deadline |-> "2024-12-01",
      status |-> "active" ]

(* Valid signature, purchase absent, task found and read, create answered 201. *)
CreatePath(i) ==
    /\ SignatureVerifies(i) /\ ExistsAnsweredFalse(i)
    /\ inv[i].task_id # NoTask
    /\ AnswerOf(i, 3) = 200
    /\ AnswerOf(i, 4) = 201

(* C8: on the successful create path createOrReport has issued exactly one *)
(* create call, with name = the subject of the record, lots = the lots and *)
(* documents = the documents extracted from it, deadline = its deadline    *)
(* and status "active", and it ends with 201 {created, the id the target   *)
(* system gave the purchase}.                                              *)
C8_CreatePayloadAndResponse ==
    \A i \in Invocations :
        CreatePath(i) =>
            LET record == inv[i].pyrus_purchase
                payload == inv[i].payload
            IN /\ Cardinality(CreateCalls(i)) = 1
               /\ payload.name = record.subject
               /\ payload.lots = extract_lots(record).value
               /\ payload.documents = extract_documents(record).value
               /\ payload.deadline = Get(record, "deadline")
               /\ payload.status = "active"
               /\ record = OfficeChairs => payload = OfficeChairsPayload
               /\ Done(i)
               /\ inv[i].response.code = 201
               /\ inv[i].response.body.status = "created"
               /\ DOMAIN inv[i].response.body = {"status", "purchase_id"}
               /\ \E k \in DOMAIN b2b_purchases :
                     b2b_purchases[k] =
                        [id |-> inv[i].response.body.purchase_id, payload |-> payload]

C8_Witness ==
    \E i \in Invocations :
        /\ CreatePath(i)
        /\ inv[i].purchase_id = P100
        /\ inv[i].pyrus_purchase = OfficeChairs

(* Equality of two strings up to the case of their characters. *)
EqualsIgnoringCase(a, b) ==
    /\ Len(a) = Len(b)
    /\ \A k \in 1 .. Len(a) :
          \/ a[k] = b[k]
          \/ <<a[k], b[k]>> \in {<<"a", "A">>, <<"A", "a">>, <<"b", "B">>, <<"B", "b">>}

(* C9: _is_signature_correct returns true exactly when the signature       *)
(* equals the lowercase hex HMAC of the payload under the secret up to     *)
(* case, and then it returns false for the same signature with any other   *)
(* payload or secret.                                                      *)
C9_VerifyIffHmac ==
    verify_call.called =>
        LET m == verify_call.message
            sec == verify_call.secret
            sig == verify_call.signature
            matches == sig # NoSignature /\ EqualsIgnoringCase(sig, hexdigest(sec, m.content))
        IN /\ (verify_call.result = Return(TRUE)) <=> matches
           /\ (sig # NoSignature /\ IsAscii(sig) /\ ~ matches) =>
                 verify_call.result = Return(FALSE)
           /\ matches =>
                 \A m2 \in Messages, sec2 \in Secrets :
                     (m2.content # m.content \/ sec2 # sec) =>
                         _is_signature_correct(m2, sec2, sig) = Return(FALSE)

(* An upper-case signature of the payload has been verified. *)
C9_Witness ==
    /\ verify_call.called
    /\ verify_call.signature = <<"B", "A">>
    /\ verify_call.secret = "s2"
    /\ verify_call.message.content = "b1"
    /\ verify_call.result = Return(TRUE)

(* C10: a create call the target system answers with a conflict is         *)
(* reported as "already_exists", not as a failure with 500.                *)
C10_ConflictIsAlreadyExists ==
    \A i \in Invocations :
        (IsCreate(i) /\ AnswerOf(i, 4) = 409) =>
            /\ Done(i)
            /\ inv[i].response.code = 200
            /\ inv[i].response.body.status = "already_exists"


(* C11: listParticipants with a valid signature and a 200 answer of the    *)
(* target system ends with 200 {success, the inbound purchase id, the      *)
(* participants the target returned in their order, their number}.         *)
C11_ParticipantsAsReturned ==
    \A i \in Invocations :
        (IsLoad(i) /\ SignatureVerifies(i) /\ AnswerOf(i, 1) = 200) =>
            /\ Done(i)
            /\ inv[i].response =
                  [code |-> 200,
                   body |-> [ status |-> "success",
                              purchase_id |-> inv[i].purchase_id,
                              participants_count |-> Len(inv[i].listed),
                              participants |-> inv[i].listed ]]

(* The target system returned three participants. *)
C11_Witness ==
    \E i \in Invocations :
        /\ IsLoad(i) /\ SignatureVerifies(i) /\ AnswerOf(i, 1) = 200
        /\ inv[i].listed = <<"Alfa", "Beta", "Gamma">>
        /\ inv[i].response.body.participants_count = 3


(* The id of the field holds the three characters l, o, t in a row. *)
HasLotMarker(id) ==
    \E k \in 1 .. (Len(id) - 2) : SubSeq(id, k, k + 2) = <<"l", "o", "t">>

(* The task has fields, and each of them an id and a value. *)
FieldsWellFormed(record) ==
    /\ "fields" \in DOMAIN record
    /\ \A k \in DOMAIN record.fields :
          {"id", "value"} \subseteq DOMAIN record.fields[k]

(* C12: extract_lots returns one lot per field whose id contains the lot   *)
(* marker and none for the others, in the order of the fields, without     *)
(* dropping repeated ones; a lot is the value of its field as name with    *)
(* the quantity and price of the field, none where the field has none.     *)
C12_OneLotPerLotField ==
    ("extract_lots" \in extract_call.called /\ FieldsWellFormed(extract_call.record)) =>
        LET lot_fields == SelectSeq(extract_call.record.fields,
                                    LAMBDA f : HasLotMarker(f.id))
        IN /\ extract_call.lots.ok
           /\ Len(extract_call.lots.value) = Len(lot_fields)
           /\ \A k \in DOMAIN lot_fields :
                 LET lot == extract_call.lots.value[k]
                     f == lot_fields[k]
                 IN /\ lot.name = f.value
                    /\ lot.quantity = (IF "quantity" \in DOMAIN f THEN f.quantity ELSE None)
                    /\ lot.price = (IF "price" \in DOMAIN f THEN f.price ELSE None)

(* Two fields of which only the second is a lot, its marker not at the     *)
(* start of the id and its quantity absent.                                *)
C12_Witness ==
    /\ "extract_lots" \in extract_call.called
    /\ "fields" \in DOMAIN extract_call.record
    /\ extract_call.record.fields = << [id |-> x, value |-> "note", quantity |-> "1"],
                                       [id |-> slot, value |-> "Slot", price |-> "7"] >>
    /\ extract_call.lots = Return(<< [name |-> "Slot", quantity |-> None, price |-> "7"] >>)

(* The attachments of the task, none if it has no such key, each with a    *)
(* name and a url.                                                         *)
AttachmentsWellFormed(record) ==
    \A k \in DOMAIN GetSeq(record, "attachments") :
        {"name", "url"} \subseteq DOMAIN record.attachments[k]

(* C13: extract_documents returns as many documents as the task has        *)
(* attachments, the i-th with the name, url and type of the i-th           *)
(* attachment, and type none where the attachment has no type.             *)
C13_OneDocumentPerAttachment ==
    ("extract_documents" \in extract_call.called
        /\ AttachmentsWellFormed(extract_call.record)) =>
        LET attachments == IF "attachments" \in DOMAIN extract_call.record
                           THEN extract_call.record.attachments ELSE <<>>
        IN /\ extract_call.documents.ok
           /\ Len(extract_call.documents.value) = Len(attachments)
           /\ \A k \in DOMAIN attachments :
                 LET doc == extract_call.documents.value[k]
                     a == attachments[k]
                 IN /\ doc.name = a.name
                    /\ doc.url = a.url
                    /\ doc.type = (IF "type" \in DOMAIN a THEN a.type ELSE None)

(* An attachment without type before one with a type. *)
C13_Witness ==
    /\ "extract_documents" \in extract_call.called
    /\ "attachments" \in DOMAIN extract_call.record
    /\ extract_call.record.attachments = << [name |-> "plan.png", url |-> "u2"],
                                            [name |-> "spec.pdf", url |-> "u1", type |-> "pdf"] >>
    /\ extract_call.documents =
          Return(<< [name |-> "plan.png", url |-> "u2", type |-> None],
                    [name |-> "spec.pdf", url |-> "u1", type |-> "pdf"] >>)


(* C14: the existence check is true iff GET /purchases/{id} answers 200:   *)
(* then the handler reports "exists" without a further call; on every      *)
(* other answer (not found, forbidden, server error) it goes on to the     *)
(* create path, whose first call is the lookup of the task.                *)
C14_ExistsIffSuccessStatus ==
    \A i \in Invocations :
        (IsCreate(i) /\ AnswerOf(i, 1) # 0) =>
            /\ (AnswerOf(i, 1) = 200) =>
                  /\ inv[i].calls = <<"check_purchase_in_b2b">>
                  /\ inv[i].response = AlreadyExists(inv[i]).response
            /\ (AnswerOf(i, 1) # 200) =>
                  /\ Len(inv[i].calls) >= 2
                  /\ inv[i].calls[2] = "_find_task_by_purchase_id"
                  /\ inv[i].response.code # 200

(* The target system holds the purchase and answers the check with a       *)
(* server error: the handler goes on to the create path.                   *)
C14_Witness ==
    \E i \in Invocations :
        /\ IsCreate(i)
        /\ AnswerOf(i, 1) = 500
        /\ inv[i].purchase_id = P200
        /\ Len(inv[i].calls) >= 2


(* C15: the create call fails exactly when POST /purchases is answered     *)
(* with a status outside 200..299; the failure carries the status and the  *)
(* body of the answer and is reported as 500; on any status in 200..299    *)
(* the handler reports "created" with the new id.                          *)
C15_CreateFailsIffNon2xx ==
    \A i \in Invocations :
        (IsCreate(i) /\ AnswerOf(i, 4) # 0) =>
            /\ Done(i)
            /\ (AnswerOf(i, 4) \in 200 .. 299) =>
                  /\ inv[i].response.code = 201
                  /\ inv[i].response.body.status = "created"
            /\ (AnswerOf(i, 4) \notin 200 .. 299) =>
                  /\ inv[i].response.code = 500
                  /\ inv[i].response.body.error.status = AnswerOf(i, 4)
                  /\ "body" \in DOMAIN inv[i].response.body.error


(* C16: with a required option of the configuration absent at the start,   *)
(* initialization fails: the process never serves, accepts no trigger and   *)
(* issues no outbound call.                                                 *)
C16_MissingOptionFailsStartup ==
    (DOMAIN bot.environ # Options) =>
        /\ ~ bot.serving
        /\ \A i \in Invocations : inv[i].pc = "idle" /\ inv[i].calls = <<>>


(* The outbound calls of create_b2b_purchase in the order of the code. *)
CallOrder ==
    << "check_purchase_in_b2b", "_find_task_by_purchase_id",
       "get_pyrus_purchase", "create_purchase_in_b2b" >>

(* C17: the outbound calls of one createOrReport invocation are a prefix   *)
(* of existence check, reverse lookup, source read, create: at most four,  *)
(* each at most once, none repeated; a call is issued only when the one    *)
(* before it has been answered and lets the handler go on (the purchase is *)
(* not reported as existing, a task id came back, the read answered 200),  *)
(* and an invocation that has responded waits for no call.                 *)
C17_CallsInFixedOrder ==
    \A i \in Invocations :
        IsCreate(i) =>
            LET calls == inv[i].calls
                n == Len(calls)
            IN /\ n <= 4
               /\ calls = SubSeq(CallOrder, 1, n)
               /\ Len(inv[i].answers) \in {m \in {n - 1, n} : m >= 0}
               /\ Len(inv[i].answers) = n - 1 <=> inv[i].pc \notin {"idle", "done"}
               /\ n >= 2 => AnswerOf(i, 1) \notin {0, 200}
               /\ n >= 3 => AnswerOf(i, 2) = 200 /\ inv[i].task_id # NoTask
               /\ n >= 4 => AnswerOf(i, 3) = 200

(* An invocation has made the four calls, the last of them rejected, and   *)
(* has responded.                                                          *)
C17_Witness ==
    \E i \in Invocations :
        /\ IsCreate(i) /\ Done(i)
        /\ inv[i].calls = CallOrder
        /\ inv[i].answers = <<404, 200, 200, 400>>
        /\ inv[i].response.code = 500

(* The task that was read carries a subject and a fields collection whose  *)
(* lot fields have a value.                                                *)
Extractable(record) ==
    /\ {"subject", "fields"} \subseteq DOMAIN record
    /\ \A k \in DOMAIN record.fields :
          /\ "id" \in DOMAIN record.fields[k]
          /\ HasLotMarker(record.fields[k].id) => "value" \in DOMAIN record.fields[k]

(* C18: a create call is issued only when the signature verified, the      *)
(* existence check returned false, the lookup returned a task id, the read *)
(* answered 200 and the extraction completed; a read answered with another *)
(* status, or a task without subject or without fields, ends the           *)
(* invocation with 500 and no create call.                                 *)
C18_CreateOnlyAfterEveryStep ==
    \A i \in Invocations :
        IsCreate(i) =>
            /\ CreateCalls(i) # {} =>
                  /\ SignatureVerifies(i)
                  /\ AnswerOf(i, 1) \notin {0, 200}
                  /\ inv[i].task_id # NoTask
                  /\ AnswerOf(i, 3) = 200
                  /\ Extractable(inv[i].pyrus_purchase)
                  /\ inv[i].payload # NoRecord
                  /\ Len(inv[i].payload.lots) =
                        Len(SelectSeq(inv[i].pyrus_purchase.fields,
                                      LAMBDA f : HasLotMarker(f.id)))
            /\ (\/ AnswerOf(i, 3) \notin {0, 200}
                \/ /\ AnswerOf(i, 3) = 200
                   /\ ~ ({"subject", "fields"} \subseteq DOMAIN inv[i].pyrus_purchase)) =>
                  /\ Done(i)
                  /\ inv[i].response.code = 500
                  /\ TerminalState(inv[i].response.code) = "FAILED"
                  /\ CreateCalls(i) = {}

(* One invocation has read a task without fields, another a task without   *)
(* subject; both have responded.                                           *)
C18_Witness ==
    \E i, j \in Invocations :
        /\ IsCreate(i) /\ AnswerOf(i, 3) = 200 /\ inv[i].pyrus_purchase = NoFields /\ Done(i)
        /\ IsCreate(j) /\ AnswerOf(j, 3) = 200 /\ inv[j].pyrus_purchase = NoSubject /\ Done(j)

(* C19: a listParticipants invocation issues at most one outbound call,    *)
(* the participant listing, and no existence check, lookup, read or create *)
(* call, and no step of it changes the purchases the target system holds.  *)
C19_ListingChangesNothing ==
    /\ [](\A i \in Invocations :
            IsLoad(i) =>
                /\ inv[i].calls \in {<<>>, <<"get_b2b_participants">>}
                /\ Len(inv[i].answers) <= Len(inv[i].calls))
    /\ [][\A i \in Invocations :
            (inv'[i].route = "load-participants" /\ inv'[i] # inv[i]) =>
                b2b_purchases' = b2b_purchases]_vars

(* One listing was rejected for its signature without a call, another      *)
(* failed on the answer of the target system after one.                    *)
C19_Witness ==
    \E i, j \in Invocations :
        /\ IsLoad(i) /\ Done(i) /\ inv[i].response.code = 401 /\ inv[i].calls = <<>>
        /\ IsLoad(j) /\ Done(j) /\ inv[j].response.code = 500
        /\ inv[j].calls = <<"get_b2b_participants">>
        /\ b2b_purchases = <<Existing>>

=============================================================================
